---- MODULE Spec2Model ----
(***************************************************************************)
(* A model of zakhij/subreddit-scraper: main() builds a DatabaseManager,   *)
(* parses the command line, runs DataIngestor.ingest_data_into_database    *)
(* (one transaction over a paginated, cutoff-bounded listing) and then     *)
(* DataDisplayer.display_subreddit_threads (read back and rebuild each     *)
(* thread's comment tree).                                                 *)
(*                                                                         *)
(* Datetimes are whole seconds counted from a local origin: a listing      *)
(* item's `created` field is datetime.fromtimestamp(thread.created_utc),   *)
(* and the DATETIME column date_posted holds the same second.              *)
(***************************************************************************)
EXTENDS Integers, Sequences, FiniteSets, TLC

\* ------------------------------------------------------------------ bounds
MaxListing == 3      \* threads the remote listing holds at most
BatchSize == 2       \* stands for limit=100 of subreddit.new
MaxFetches == 4      \* the count of batch fetches saturates here
MaxRuns == 2         \* invocations of main over the same store
MaxComments == 3     \* comments of the thread whose tree is rebuilt
Now == 3             \* datetime.now(), in the model's seconds

\* Python's None / SQL NULL, for identifiers and for text
NULL == 0
NoneStr == "None"

Times == 1..Now
ThreadIds == 1..MaxListing

Min(a, b) == IF a < b THEN a ELSE b

Range(s) == {s[i] : i \in DOMAIN s}

\* ---------------------------------------------------------- remote source
\* The subreddit the remote API serves: id and canonical display name.
RemoteSubreddit == [id |-> 7, name |-> "python"]

\* A native comment of the remote API: parent_id is a fullname, "t1_<id>"
\* for a comment and "t3_<id>" for the thread itself.
NativeComment(id, kind, parent, author, score, created, body) ==
    [id |-> id, parent_kind |-> kind, parent |-> parent, author |-> author,
     score |-> score, created |-> created, body |-> body]

\* thread.comments.list() after replace_more(limit=None): the flattened
\* forest, breadth-first, so a reply follows the comment it answers.
\* Thread 1 holds a comment and a later reply; thread 2 a comment by a
\* deleted author and a reply written in the same second; the others none.
RemoteComments(item) ==
    IF item.id = 1
    THEN << NativeComment(11, "t3", 1, "ann", 5, item.created, "first"),
            NativeComment(12, "t1", 11, "bob", 2, item.created + 1, "reply") >>
    ELSE IF item.id = 2
    THEN << NativeComment(21, "t3", 2, NoneStr, 1, item.created, "gone"),
            NativeComment(22, "t1", 21, "ann", 0, item.created, "quick") >>
    ELSE << >>

\* is_self of a submission: thread 1 is a self post, the others are links.
IsSelf(item) == item.id = 1

\* The listings subreddit.new can page through: any of the threads, each
\* with any creation time, so newest first or not (the API promises newest
\* first; the code does not check it). Thread ids are labels, and a
\* listing holds its threads in the order of their labels.
Listings ==
    UNION { { l \in [1..n -> [id : ThreadIds, created : Times]] :
                \A i, j \in 1..n : i < j => l[i].id < l[j].id } : n \in 0..MaxListing }

\* Index of the item whose fullname is `after`, 0 for None.
IndexOf(l, after) ==
    IF after = NULL THEN 0
    ELSE IF \E i \in DOMAIN l : l[i].id = after
         THEN CHOOSE i \in DOMAIN l : l[i].id = after
         ELSE Len(l)

\* subreddit.new(limit=100, params={"after": last_thread}): the items that
\* follow the cursor, at most one batch of them.
subreddit_new(l, after) ==
    LET from == IndexOf(l, after)
    IN  SubSeq(l, from + 1, Min(Len(l), from + BatchSize))

\* ------------------------------------------------------------ data_ingestor
\* DataIngestor.parse_subreddit: a second subreddit object, fetched for its
\* id and display name.
parse_subreddit(name) == [id |-> RemoteSubreddit.id, name |-> RemoteSubreddit.name]

\* DataIngestor.get_parent_comment_id: the id behind a "t1_" parent
\* reference, None for a reply to the thread or a missing reference.
get_parent_comment_id(comment) ==
    IF comment.parent = NULL THEN NULL
    ELSE IF comment.parent_kind = "t1" THEN comment.parent
    ELSE NULL

\* DataIngestor.parse_comment
parse_comment(comment, thread) ==
    [id |-> comment.id,
     thread_id |-> thread.id,
     parent_comment_id |-> get_parent_comment_id(comment),
     username |-> comment.author,
     upvotes |-> comment.score,
     date_posted |-> comment.created,
     text |-> comment.body]

\* DataIngestor.parse_comments
parse_comments(thread) ==
    LET cs == RemoteComments(thread)
    IN  [i \in DOMAIN cs |-> parse_comment(cs[i], thread)]

\* DataIngestor.parse_thread
parse_thread(thread) ==
    [id |-> thread.id,
     subreddit_id |-> RemoteSubreddit.id,
     title |-> IF thread.id = 1 THEN "ask" ELSE "show",
     text |-> IF IsSelf(thread) THEN "body" ELSE "",
     external_url |-> IF ~IsSelf(thread) THEN "http://ext" ELSE NoneStr,
     url |-> "https://reddit.com/r/python/comments",
     username |-> IF thread.id = 2 THEN NoneStr ELSE "ann",
     upvotes |-> 10 * thread.id,
     date_posted |-> thread.created,
     comments |-> parse_comments(thread)]

\* ---------------------------------------------------------- database_manager
\* The three tables of setup_db.py, each a sequence of rows in insertion
\* order, so that a second row with the same primary key would show.
EmptyDb == [subreddits |-> << >>, threads |-> << >>, comments |-> << >>]

HasKey(table, id) == \E i \in DOMAIN table : table[i].id = id

RowOf(table, id) == table[CHOOSE i \in DOMAIN table : table[i].id = id]

\* The row a thread is stored as: the nine columns of the INSERT.
ThreadRow(t) ==
    [id |-> t.id, subreddit_id |-> t.subreddit_id, title |-> t.title,
     text |-> t.text, external_url |-> t.external_url, url |-> t.url,
     username |-> t.username, upvotes |-> t.upvotes,
     date_posted |-> t.date_posted]

\* ON DUPLICATE KEY UPDATE name=%s
UpdateSubreddit(old, row) == [old EXCEPT !.name = row.name]

\* ON DUPLICATE KEY UPDATE upvotes=%s, title=%s, url=%s, text=%s
ThreadOverwriteAll(old, row) == row
UpdateThread(old, row) ==
    [old EXCEPT !.upvotes = row.upvotes, !.title = row.title,
                !.url = row.url, !.text = row.text]

\* ON DUPLICATE KEY UPDATE upvotes=%s, text=%s
UpdateComment(old, row) ==
    [old EXCEPT !.upvotes = row.upvotes, !.text = row.text]

\* INSERT ... ON DUPLICATE KEY UPDATE on one table: the row is appended
\* when its key is new, and otherwise the stored row is updated in place.
InsertAlways(table, row, upd) == Append(table, row)
Upsert(table, row, upd) ==
    IF HasKey(table, row.id)
    THEN [i \in DOMAIN table |-> IF table[i].id = row.id THEN upd ELSE table[i]]
    ELSE Append(table, row)

\* The foreign keys of setup_db.py, checked when a row is inserted: a
\* violation raises IntegrityError and the statement changes nothing.
ThreadFkOk(db, t) == HasKey(db.subreddits, t.subreddit_id)

CommentFkOk(db, c) ==
    /\ HasKey(db.threads, c.thread_id)
    /\ c.parent_comment_id = NULL \/ HasKey(db.comments, c.parent_comment_id)

\* DatabaseManager.insert_subreddit_data
insert_subreddit_data(db, subreddit) ==
    [db EXCEPT !.subreddits =
        Upsert(@, subreddit,
               IF HasKey(@, subreddit.id)
               THEN UpdateSubreddit(RowOf(@, subreddit.id), subreddit)
               ELSE subreddit)]

\* DatabaseManager.insert_thread_data
insert_thread_data(db, thread) ==
    [db EXCEPT !.threads =
        Upsert(@, ThreadRow(thread),
               IF HasKey(@, thread.id)
               THEN UpdateThread(RowOf(@, thread.id), ThreadRow(thread))
               ELSE ThreadRow(thread))]

\* One execute of insert_comment_data's loop.
insert_comment(db, comment) ==
    [db EXCEPT !.comments =
        Upsert(@, comment,
               IF HasKey(@, comment.id)
               THEN UpdateComment(RowOf(@, comment.id), comment)
               ELSE comment)]

\* DatabaseManager.insert_comment_data: the comments in list order. The
\* result is [ok, db]: a foreign-key failure stops the loop and raises.
RECURSIVE insert_comment_data(_, _)
insert_comment_data(db, comments) ==
    IF comments = << >> THEN [ok |-> TRUE, db |-> db]
    ELSE LET c == Head(comments)
         IN  IF ~HasKey(db.comments, c.id) /\ ~CommentFkOk(db, c)
             THEN [ok |-> FALSE, db |-> db]
             ELSE insert_comment_data(insert_comment(db, c), Tail(comments))


\* DatabaseManager.connect / __enter__: a connection is opened if none is
\* open. __exit__: the connection is closed if it is open.
EnterKeeps(conn) == conn
enter_connection(conn) == IF conn # "open" THEN "open" ELSE conn

ExitLeavesOpen(conn) == conn
exit_connection(conn) == IF conn = "open" THEN "closed" ELSE conn

\* What the store durably holds once __exit__ has closed the connection:
\* close() sends no COMMIT, and the server rolls back what the session
\* left uncommitted.
ExitCommits(durable, session) == session
exit_store(durable, session) == durable

\* ----------------------------------------------------------------- state
VARIABLES
    argv,            \* the command line: lookback date and the two selectors
    listing,         \* what the remote listing holds, newest first or not
    pc,              \* where main is
    run,             \* which invocation of main this is
    subreddit_name,  \* _parse_input's result
    start_date,
    connection,      \* "none" | "open" | "closed": DatabaseManager.connection
    connects,        \* pymysql.connect calls of this invocation
    committed,       \* the store as committed
    pending,         \* the store as the open session sees it
    last_thread,     \* get_threads_since_date: the pagination cursor
    batch,           \* what is left of the batch being iterated
    thread,          \* the listing item in hand
    parsed_thread,   \* helper's parsed_thread
    fetches,         \* batches fetched in this invocation (saturating)
    netCalls,        \* whether the remote API was called in this invocation
    dbCalls,         \* whether a statement or commit was sent in this invocation
    cutoffHit,       \* the scan met an item older than start_date
    upserted,        \* ids of the threads upserted in this invocation, in order
    commits,         \* commits of this invocation
    runStart,        \* the committed store when this invocation began
    firstCommit,     \* the committed store after the first completed ingestion
    display_name,    \* display_subreddit_threads' subreddit_name
    subreddit_id,    \* its local subreddit_id
    threads,         \* the threads still to display
    comments,        \* display_comments: the comments still to place
    comment_dict,    \* display_comments: key -> node
    comment_tree,    \* the tree: node -> its children, in order
    printed,         \* ids of the threads whose tree reached the console
    notice,          \* the notice console.log emitted, if any
    threadReads,     \* get_threads calls of this invocation
    commentReads     \* get_comments calls of this invocation

inVars == <<argv, listing>>
mainVars == <<run, subreddit_name, start_date>>
dbVars == <<connection, connects, committed, pending>>
ingestVars == <<last_thread, batch, thread, parsed_thread>>
histVars == <<fetches, netCalls, dbCalls, cutoffHit, upserted, commits, runStart, firstCommit>>
displayVars == <<display_name, subreddit_id, threads, comments, comment_dict,
                 comment_tree, printed, notice, threadReads, commentReads>>
vars == <<inVars, pc, mainVars, dbVars, ingestVars, histVars, displayVars>>

\* ------------------------------------------------------------------ main
\* args.subreddit_url.split("/"): the URL's segments.
SubredditUrl == << "https:", "", "www.reddit.com", "r", "python", "" >>

\* The command lines tried: --lookback_date missing, malformed or a date
\* (Now + 1 lies in the future), and each way of giving the two selectors.
CommandLines ==
    [date_kind : {"ok"}, date : 1..(Now + 1), subreddit : BOOLEAN, subreddit_url : BOOLEAN]
    \cup [date_kind : {"missing", "malformed"}, date : {1},
          subreddit : BOOLEAN, subreddit_url : BOOLEAN]

\* parser.parse_args(): --lookback_date is required, and exactly one of the
\* mutually exclusive group.
ParseArgsOk(a) ==
    /\ a.date_kind # "missing"
    /\ a.subreddit # a.subreddit_url

\* _parse_input succeeds: parse_args, strptime and the not-in-the-future test.
ParseInputOk(a) ==
    /\ ParseArgsOk(a)
    /\ a.date_kind = "ok"
    /\ ~(a.date > Now)

\* _parse_input's subreddit name: the name given, or the URL's [-2] segment.
ParsedName(a) ==
    IF a.subreddit THEN "python" ELSE SubredditUrl[Len(SubredditUrl) - 1]

NoDisplay ==
    /\ display_name = NoneStr
    /\ subreddit_id = NULL
    /\ threads = << >>
    /\ comments = << >>
    /\ comment_dict = << >>
    /\ comment_tree = << >>
    /\ printed = << >>
    /\ notice = NoneStr
    /\ threadReads = 0
    /\ commentReads = 0

\* No thread in hand yet.
NoThread == [id |-> NULL, comments |-> << >>]

\* A fresh process: nothing constructed, nothing called.
ProcessStart ==
    /\ subreddit_name = NoneStr
    /\ start_date = 0
    /\ connects = 0
    /\ last_thread = NULL
    /\ batch = << >>
    /\ thread = NoThread
    /\ parsed_thread = NoThread
    /\ fetches = 0
    /\ netCalls = FALSE
    /\ dbCalls = FALSE
    /\ cutoffHit = FALSE
    /\ upserted = << >>
    /\ commits = 0
    /\ NoDisplay

Init ==
    /\ argv \in CommandLines
    /\ listing \in Listings
    /\ run = 1
    /\ committed = EmptyDb
    /\ pending = EmptyDb
    /\ runStart = EmptyDb
    /\ firstCommit = [done |-> FALSE, run |-> 0, db |-> EmptyDb]
    /\ pc = "main"
    /\ connection = "none"
    /\ ProcessStart

\* main, lines 20-36: Config(), praw.Reddit (no request is sent yet) and
\* DatabaseManager(...), whose __init__ connects at once.
Construct ==
    /\ pc = "main"
    /\ pc' = "parse_input"
    /\ connection' = "open"
    /\ connects' = connects + 1
    /\ pending' = committed
    /\ UNCHANGED <<inVars, mainVars, committed, ingestVars, histVars, displayVars>>

\* pymysql.connect raises in __init__: main ends with the error.
ConstructFails ==
    /\ pc = "main"
    /\ pc' = "failed"
    /\ connects' = connects + 1
    /\ UNCHANGED <<inVars, mainVars, connection, committed, pending, ingestVars,
                   histVars, displayVars>>

\* main, line 39: _parse_input returns the name and the date.
ParseInput ==
    /\ pc = "parse_input"
    /\ ParseInputOk(argv)
    /\ pc' = "ingest_enter"
    /\ subreddit_name' = ParsedName(argv)
    /\ start_date' = argv.date
    /\ UNCHANGED <<inVars, run, dbVars, ingestVars, histVars, displayVars>>

\* _parse_input exits (argparse's SystemExit) or raises ValueError: main
\* ends, with the connection its DatabaseManager opened still open.
ParseInputFails ==
    /\ pc = "parse_input"
    /\ ~ParseInputOk(argv)
    /\ pc' = "usage_error"
    /\ UNCHANGED <<inVars, mainVars, dbVars, ingestVars, histVars, displayVars>>

\* ---------------------------------------------- ingest_data_into_database
\* `with database_manager as database:` __enter__ opens a connection if
\* none is open.
IngestEnter ==
    /\ pc = "ingest_enter"
    /\ pc' = "sweep_start"
    /\ connection' = enter_connection(connection)
    /\ connects' = IF connection # "open" THEN connects + 1 ELSE connects
    /\ pending' = IF connection # "open" THEN committed ELSE pending
    /\ UNCHANGED <<inVars, mainVars, committed, ingestVars, histVars, displayVars>>

\* get_threads_since_date, lines 73-80: the subreddit is fetched, parsed
\* and upserted; the cursor starts at None.
SweepStart ==
    /\ pc = "sweep_start"
    /\ connection = "open"
    /\ pc' = "fetch"
    /\ netCalls' = TRUE
    /\ dbCalls' = TRUE
    /\ pending' = insert_subreddit_data(pending, parse_subreddit(subreddit_name))
    /\ last_thread' = NULL
    /\ UNCHANGED <<inVars, mainVars, connection, connects, committed, batch, thread,
                   parsed_thread, fetches, cutoffHit, upserted, commits, runStart,
                   firstCommit, displayVars>>

\* `not batch` for what subreddit.new returns. praw's ListingGenerator is
\* an iterator object that defines neither __bool__ nor __len__, so it is
\* true whether or not it will yield anything.
NotBatch(b) == FALSE

\* Lines 82-84: `batch = subreddit.new(...)`, then `if not batch: return`.
\* The request itself goes out when the for loop first asks the generator.
FetchBatch ==
    /\ pc = "fetch"
    /\ LET b == subreddit_new(listing, last_thread)
       IN  /\ batch' = b
           /\ pc' = IF NotBatch(b) THEN "commit" ELSE "for"
    /\ fetches' = Min(fetches + 1, MaxFetches)
    /\ netCalls' = TRUE
    /\ UNCHANGED <<inVars, mainVars, dbVars, last_thread, thread, parsed_thread,
                   dbCalls, cutoffHit, upserted, commits, runStart, firstCommit,
                   displayVars>>

\* Line 87: the item is older than the lookback date.
TooEarlyInclusive(item, date) == item.created <= date
TooEarly(item, date) == item.created < date

\* Line 88: what follows the first too-early item: `return`, which leaves
\* get_threads_since_date for the commit.
ContinueOnTooEarly == "for"
OnTooEarly == "commit"

\* Lines 85-88: the for loop takes the next item of the batch; a drained
\* batch falls back to `while True`.
ForNext ==
    /\ pc = "for"
    /\ IF batch = << >>
       THEN /\ pc' = "fetch"
            /\ UNCHANGED <<thread, batch, cutoffHit>>
       ELSE /\ thread' = Head(batch)
            /\ batch' = Tail(batch)
            /\ IF TooEarly(Head(batch), start_date)
               THEN /\ pc' = OnTooEarly
                    /\ cutoffHit' = TRUE
               ELSE /\ pc' = "helper_parse"
                    /\ UNCHANGED cutoffHit
    /\ UNCHANGED <<inVars, mainVars, dbVars, last_thread, parsed_thread, fetches,
                   netCalls, dbCalls, upserted, commits, runStart, firstCommit,
                   displayVars>>

\* helper, line 68: parse_thread, which expands and reads the comment forest.
HelperParse ==
    /\ pc = "helper_parse"
    /\ pc' = "helper_insert_thread"
    /\ parsed_thread' = parse_thread(thread)
    /\ netCalls' = TRUE
    /\ UNCHANGED <<inVars, mainVars, dbVars, last_thread, batch, thread, fetches,
                   dbCalls, cutoffHit, upserted, commits, runStart, firstCommit,
                   displayVars>>

\* helper, line 69: insert_thread_data.
HelperInsertThread ==
    /\ pc = "helper_insert_thread"
    /\ connection = "open"
    /\ HasKey(pending.threads, parsed_thread.id) \/ ThreadFkOk(pending, parsed_thread)
    /\ pc' = "helper_insert_comments"
    /\ pending' = insert_thread_data(pending, parsed_thread)
    /\ upserted' = Append(upserted, parsed_thread.id)
    /\ dbCalls' = TRUE
    /\ UNCHANGED <<inVars, mainVars, connection, connects, committed, ingestVars,
                   fetches, netCalls, cutoffHit, commits, runStart, firstCommit,
                   displayVars>>

\* helper, line 70, and line 90: insert_comment_data, then the cursor
\* moves to this thread's fullname.
HelperInsertComments ==
    /\ pc = "helper_insert_comments"
    /\ connection = "open"
    /\ insert_comment_data(pending, parsed_thread.comments).ok
    /\ pc' = "for"
    /\ pending' = insert_comment_data(pending, parsed_thread.comments).db
    /\ last_thread' = thread.id
    /\ dbCalls' = TRUE
    /\ UNCHANGED <<inVars, mainVars, connection, connects, committed, batch, thread,
                   parsed_thread, fetches, netCalls, cutoffHit, upserted, commits,
                   runStart, firstCommit, displayVars>>

\* Line 44: database.connection.commit().
Commit ==
    /\ pc = "commit"
    /\ connection = "open"
    /\ pc' = "ingest_exit"
    /\ committed' = pending
    /\ commits' = commits + 1
    /\ dbCalls' = TRUE
    /\ firstCommit' = IF firstCommit.done THEN firstCommit
                      ELSE [done |-> TRUE, run |-> run, db |-> pending]
    /\ UNCHANGED <<inVars, mainVars, connection, connects, pending, ingestVars,
                   fetches, netCalls, cutoffHit, upserted, runStart, displayVars>>

\* The with block ends normally: __exit__ closes the connection.
IngestExit ==
    /\ pc = "ingest_exit"
    /\ pc' = "display_enter"
    /\ connection' = exit_connection(connection)
    /\ committed' = exit_store(committed, pending)
    /\ pending' = exit_store(committed, pending)
    /\ UNCHANGED <<inVars, mainVars, connects, ingestVars, histVars, displayVars>>

\* The positions inside the with block at which a request to the remote
\* API or a statement sent to the store can fail.
SweepPcs == {"sweep_start", "fetch", "helper_parse", "helper_insert_thread",
             "helper_insert_comments", "commit"}

\* A remote-fetch or database error inside the with block (or a statement
\* sent on a connection that is not open): nothing catches it, __exit__
\* closes the connection on the way out and main ends with the error.
IngestRaises ==
    /\ pc \in SweepPcs
    /\ pc' = "failed"
    /\ connection' = exit_connection(connection)
    /\ committed' = exit_store(committed, pending)
    /\ pending' = exit_store(committed, pending)
    /\ UNCHANGED <<inVars, mainVars, connects, ingestVars, histVars, displayVars>>

\* ------------------------------------------------------------ reads
\* The orders in which a query may deliver the rows S: under ORDER BY the
\* server keeps those that respect the key, and rows with equal keys come
\* in an order it is free to choose.
Arrangements(S) ==
    { s \in [1..Cardinality(S) -> S] :
        \A i, j \in DOMAIN s : i # j => s[i] # s[j] }

\* DatabaseManager.get_subreddit_id: fetchone() of the rows with that
\* name, mapped to the id, or None.
get_subreddit_id(db, name) ==
    IF \E i \in DOMAIN db.subreddits : db.subreddits[i].name = name
    THEN db.subreddits[CHOOSE i \in DOMAIN db.subreddits : db.subreddits[i].name = name].id
    ELSE NULL

\* DatabaseManager.get_threads: WHERE subreddit_id = %s AND date_posted >= %s
\* ORDER BY date_posted DESC.
get_threads(db, sid, date) ==
    { s \in Arrangements({ t \in Range(db.threads) :
                                t.subreddit_id = sid /\ t.date_posted >= date }) :
        \A i, j \in DOMAIN s : i < j => s[i].date_posted >= s[j].date_posted }

\* DatabaseManager.get_comments: WHERE thread_id = %s ORDER BY date_posted ASC.
get_comments(db, tid) ==
    { s \in Arrangements({ c \in Range(db.comments) : c.thread_id = tid }) :
        \A i, j \in DOMAIN s : i < j => s[i].date_posted <= s[j].date_posted }

\* -------------------------------------------------------- data_displayer
\* `if not subreddit_id:` of display_subreddit_threads.
NeverNotFound(sid) == FALSE
NotFound(sid) == sid = NULL

\* display_comments, lines 105-109: the node a comment is added under. A
\* comment with a parent goes under comment_dict.get(parent), which is None
\* when the parent has no entry yet; the others go under the tree itself.
NoParent(c) == FALSE
HasParent(c) == c.parent_comment_id # NULL

ParentPlaced(dict, c) == ~HasParent(c) \/ c.parent_comment_id \in DOMAIN dict

AlwaysRoot(dict, c) == NULL
ParentNode(dict, c) ==
    IF HasParent(c) THEN dict[c.parent_comment_id] ELSE NULL

\* `with self.database as database:` of display_subreddit_threads.
DisplayEnter ==
    /\ pc = "display_enter"
    /\ pc' = "get_subreddit_id"
    /\ display_name' = subreddit_name
    /\ connection' = enter_connection(connection)
    /\ connects' = IF connection # "open" THEN connects + 1 ELSE connects
    /\ pending' = IF connection # "open" THEN committed ELSE pending
    /\ UNCHANGED <<inVars, mainVars, committed, ingestVars, histVars, subreddit_id,
                   threads, comments, comment_dict, comment_tree, printed, notice,
                   threadReads, commentReads>>

\* connect raises inside __enter__: the with block is never entered.
DisplayEnterFails ==
    /\ pc = "display_enter"
    /\ connection # "open"
    /\ pc' = "failed"
    /\ display_name' = subreddit_name
    /\ connects' = connects + 1
    /\ UNCHANGED <<inVars, mainVars, connection, committed, pending, ingestVars,
                   histVars, subreddit_id, threads, comments, comment_dict,
                   comment_tree, printed, notice, threadReads, commentReads>>

\* Lines 30-37: the id is looked up; without one the notice is logged and
\* the method returns.
GetSubredditId ==
    /\ pc = "get_subreddit_id"
    /\ connection = "open"
    /\ LET sid == get_subreddit_id(pending, display_name)
       IN  /\ subreddit_id' = sid
           /\ IF NotFound(sid)
              THEN /\ notice' = "not found"
                   /\ pc' = "display_exit"
              ELSE /\ pc' = "get_threads"
                   /\ UNCHANGED notice
    /\ dbCalls' = TRUE
    /\ UNCHANGED <<inVars, mainVars, dbVars, ingestVars, fetches, netCalls, cutoffHit,
                   upserted, commits, runStart, firstCommit, display_name, threads,
                   comments, comment_dict, comment_tree, printed, threadReads,
                   commentReads>>

\* Lines 40-47: the threads are read; without any the notice is logged and
\* the method returns.
GetThreads ==
    /\ pc = "get_threads"
    /\ connection = "open"
    /\ threads' \in get_threads(pending, subreddit_id, start_date)
    /\ threadReads' = threadReads + 1
    /\ IF threads' = << >>
       THEN /\ notice' = "no threads"
            /\ pc' = "display_exit"
       ELSE /\ pc' = "display_thread"
            /\ UNCHANGED notice
    /\ dbCalls' = TRUE
    /\ UNCHANGED <<inVars, mainVars, dbVars, ingestVars, fetches, netCalls, cutoffHit,
                   upserted, commits, runStart, firstCommit, display_name, subreddit_id,
                   comments, comment_dict, comment_tree, printed, commentReads>>

\* Lines 50-52 and display_thread: the loop takes the next thread, prints
\* its panel and reads its comments; display_comments starts with the tree
\* registered under None. A thread without comments is done at once.
DisplayThread ==
    /\ pc = "display_thread"
    /\ threads # << >>
    /\ connection = "open"
    /\ comments' \in get_comments(pending, Head(threads).id)
    /\ commentReads' = commentReads + 1
    /\ dbCalls' = TRUE
    /\ IF comments' = << >>
       THEN /\ threads' = Tail(threads)
            /\ pc' = "display_thread"
            /\ UNCHANGED <<comment_dict, comment_tree>>
       ELSE /\ comment_dict' = (NULL :> NULL)
            /\ comment_tree' = (NULL :> << >>)
            /\ pc' = "display_comments"
            /\ UNCHANGED threads
    /\ UNCHANGED <<inVars, mainVars, dbVars, ingestVars, fetches, netCalls, cutoffHit,
                   upserted, commits, runStart, firstCommit, display_name, subreddit_id,
                   printed, notice, threadReads>>

\* display_comments, lines 99-109: one turn of the loop. The comment's node
\* is added under its parent's node and registered under the comment's id.
PlaceComment ==
    /\ pc = "display_comments"
    /\ comments # << >>
    /\ LET c == Head(comments)
       IN  /\ ParentPlaced(comment_dict, c)
           /\ comment_tree' =
                (c.id :> << >>) @@
                [comment_tree EXCEPT ![ParentNode(comment_dict, c)] = Append(@, c.id)]
           /\ comment_dict' = (c.id :> c.id) @@ comment_dict
    /\ comments' = Tail(comments)
    /\ UNCHANGED <<inVars, pc, mainVars, dbVars, ingestVars, histVars, display_name,
                   subreddit_id, threads, printed, notice, threadReads, commentReads>>

\* Line 107 with a parent that has no entry: parent_node is None and
\* None.add raises AttributeError, which leaves the with block.
PlaceCommentRaises ==
    /\ pc = "display_comments"
    /\ comments # << >>
    /\ ~ParentPlaced(comment_dict, Head(comments))
    /\ pc' = "failed"
    /\ connection' = exit_connection(connection)
    /\ committed' = exit_store(committed, pending)
    /\ pending' = exit_store(committed, pending)
    /\ UNCHANGED <<inVars, mainVars, connects, ingestVars, histVars, displayVars>>

\* Line 111 and line 52: the tree is printed, and the loop of
\* display_subreddit_threads goes on to the next thread.
PrintTree ==
    /\ pc = "display_comments"
    /\ comments = << >>
    /\ printed' = Append(printed, Head(threads).id)
    /\ threads' = Tail(threads)
    /\ pc' = "display_thread"
    /\ UNCHANGED <<inVars, mainVars, dbVars, ingestVars, histVars, display_name,
                   subreddit_id, comments, comment_dict, comment_tree, notice,
                   threadReads, commentReads>>

\* The loop over the threads is over.
DisplayLoopEnds ==
    /\ pc = "display_thread"
    /\ threads = << >>
    /\ pc' = "display_exit"
    /\ UNCHANGED <<inVars, mainVars, dbVars, ingestVars, histVars, displayVars>>

\* The with block ends, by a return or at its end: __exit__ closes.
DisplayExit ==
    /\ pc = "display_exit"
    /\ pc' = "done"
    /\ connection' = exit_connection(connection)
    /\ committed' = exit_store(committed, pending)
    /\ pending' = exit_store(committed, pending)
    /\ UNCHANGED <<inVars, mainVars, connects, ingestVars, histVars, displayVars>>

\* A query of the display pass fails (a database error, or a connection
\* that is not open): the error leaves the with block.
DisplayRaises ==
    /\ pc \in {"get_subreddit_id", "get_threads"} \/ (pc = "display_thread" /\ threads # << >>)
    /\ pc' = "failed"
    /\ connection' = exit_connection(connection)
    /\ committed' = exit_store(committed, pending)
    /\ pending' = exit_store(committed, pending)
    /\ UNCHANGED <<inVars, mainVars, connects, ingestVars, histVars, displayVars>>

\* The program is started again with the same command line against the
\* same store and the same remote listing. The process that ended took its
\* connection with it.
Rerun ==
    /\ pc \in {"done", "failed", "usage_error"}
    /\ run < MaxRuns
    /\ run' = run + 1
    /\ pc' = "main"
    /\ subreddit_name' = NoneStr
    /\ start_date' = 0
    /\ connection' = "none"
    /\ connects' = 0
    /\ last_thread' = NULL
    /\ batch' = << >>
    /\ thread' = NoThread
    /\ parsed_thread' = NoThread
    /\ fetches' = 0
    /\ netCalls' = FALSE
    /\ dbCalls' = FALSE
    /\ cutoffHit' = FALSE
    /\ upserted' = << >>
    /\ commits' = 0
    /\ display_name' = NoneStr
    /\ subreddit_id' = NULL
    /\ threads' = << >>
    /\ comments' = << >>
    /\ comment_dict' = << >>
    /\ comment_tree' = << >>
    /\ printed' = << >>
    /\ notice' = NoneStr
    /\ threadReads' = 0
    /\ commentReads' = 0
    /\ runStart' = committed
    /\ pending' = committed
    /\ UNCHANGED <<inVars, committed, firstCommit>>

Next ==
    \/ Construct
    \/ ConstructFails
    \/ ParseInput
    \/ ParseInputFails
    \/ IngestEnter
    \/ SweepStart
    \/ FetchBatch
    \/ ForNext
    \/ HelperParse
    \/ HelperInsertThread
    \/ HelperInsertComments
    \/ Commit
    \/ IngestExit
    \/ IngestRaises
    \/ DisplayEnter
    \/ DisplayEnterFails
    \/ GetSubredditId
    \/ GetThreads
    \/ DisplayThread
    \/ PlaceComment
    \/ PlaceCommentRaises
    \/ PrintTree
    \/ DisplayLoopEnds
    \/ DisplayExit
    \/ DisplayRaises
    \/ Rerun

Spec == Init /\ [][Next]_vars

\* The program runs on: a step that can be taken is taken. Nothing obliges
\* a request to fail.
FairSpec == Spec /\ WF_vars(Next)

\* ------------------------------------------------------------ properties
NoDuplicateKeys(table) ==
    \A i, j \in DOMAIN table : i # j => table[i].id # table[j].id

\* The listing is newest first: creation times never increase.
NewestFirst(l) == \A i, j \in DOMAIN l : i < j => l[i].created >= l[j].created

\* The ids of the listing's items at or after the lookback date.
InRange == { listing[i].id : i \in { k \in DOMAIN listing : listing[k].created >= start_date } }

\* Nothing follows the cursor and the batch in hand is used up.
Drained == pc = "for" /\ batch = << >> /\ subreddit_new(listing, last_thread) = << >>

\* C1: idempotence. Once an ingestion has been committed, a later
\* invocation that ingests the same listing with the same lookback date
\* and commits leaves the store exactly as that first ingestion left it:
\* the same rows with the same field values, and no primary key twice.
C1_Idempotent ==
    (commits = 1 /\ firstCommit.done /\ firstCommit.run < run)
        => /\ committed = firstCommit.db
           /\ NoDuplicateKeys(committed.subreddits)
           /\ NoDuplicateKeys(committed.threads)
           /\ NoDuplicateKeys(committed.comments)

C1_Witness ==
    /\ run = 2
    /\ commits = 1
    /\ firstCommit.done /\ firstCommit.run = 1
    /\ Len(committed.threads) >= 2
    /\ Len(committed.comments) >= 2

\* C2: cutoff correctness. For a listing that is newest first, the
\* threads a run upserts are always items at or after the lookback date,
\* and once the scan has ended (an older item was met, or the listing is
\* used up) they are exactly those items, each upserted once: an item at
\* the lookback date is in, every older one is out.
C2_CutoffCorrect ==
    (NewestFirst(listing) /\ pc # "main" /\ pc # "parse_input")
        => /\ Range(upserted) \subseteq InRange
           /\ \A i, j \in DOMAIN upserted : i # j => upserted[i] # upserted[j]
           /\ (cutoffHit \/ Drained) => Range(upserted) = InRange

C2_Witness ==
    /\ NewestFirst(listing)
    /\ cutoffHit
    /\ \E i \in DOMAIN listing :
         listing[i].created = start_date /\ listing[i].id \in Range(upserted)
    /\ \E i \in DOMAIN listing :
         listing[i].created < start_date /\ listing[i].id \notin Range(upserted)
    /\ Len(upserted) >= 2

\* C3: early stop. From the moment the scan has met an item older than the
\* lookback date, this run maps and upserts no further thread, writes
\* nothing more (its session is only committed or dropped), fetches no further batch and never returns to the loop.
C3_EarlyStop ==
    [][(cutoffHit /\ run' = run)
         => /\ upserted' = upserted
            /\ parsed_thread' = parsed_thread
            /\ fetches' = fetches
            /\ pc' \notin {"fetch", "for", "helper_parse", "helper_insert_thread",
                           "helper_insert_comments"}
            /\ pending' \in {pending, committed}]_vars

\* The scan stopped at the head of a batch although an item left in that
\* batch and an item of a later batch are at or after the lookback date.
C3_Witness ==
    /\ cutoffHit
    /\ pc = "ingest_exit"
    /\ \E i \in DOMAIN batch : batch[i].created >= start_date
    /\ \E i \in DOMAIN listing :
         /\ i > BatchSize
         /\ listing[i].created >= start_date
         /\ listing[i].id \notin Range(upserted)

\* C4: all or nothing. A run commits at most once, and only when the scan
\* is over; until it has committed, the committed store is what it was
\* when the run began, whatever the run has written and also after an
\* error has ended it, and main then ends with the error without
\* displaying anything. Once it has committed, everything it upserted is
\* in the committed store.
C4_AllOrNothing ==
    /\ commits <= 1
    /\ commits = 0 => committed = runStart
    /\ (pc = "failed" /\ commits = 0) => (display_name = NoneStr /\ threadReads = 0)
    /\ commits = 1 =>
         /\ cutoffHit \/ NotBatch(batch)
         /\ HasKey(committed.subreddits, RemoteSubreddit.id)
         /\ \A i \in DOMAIN upserted : HasKey(committed.threads, upserted[i])

\* An error ended the run after it had written a thread and its comments.
C4_Witness ==
    /\ pc = "failed"
    /\ commits = 0
    /\ Len(upserted) >= 1
    /\ last_thread # NULL
    /\ committed = runStart
    /\ committed.threads = << >>

\* C5: a command line that _parse_input rejects ends main before any call
\* to the remote API and before any database activity, the opening of the
\* connection included.
C5_ValidationBeforeIO ==
    pc = "usage_error" => /\ ~netCalls
                          /\ ~dbCalls
                          /\ connects = 0
                          /\ connection = "none"

InScope ==
    pc \in {"sweep_start", "fetch", "for", "helper_parse", "helper_insert_thread",
            "helper_insert_comments", "commit", "ingest_exit", "get_subreddit_id",
            "get_threads", "display_thread", "display_comments", "display_exit"}

\* C9: scoped connection. Inside either with block the connection is open
\* (the display pass reopens the one the ingest pass closed), and once a
\* with block has been left, by its end, by a return or by an error, the
\* connection is closed.
C9_ScopedConnection ==
    /\ InScope => connection = "open"
    /\ pc \in {"display_enter", "done"} => connection = "closed"
    /\ pc = "failed" => connection # "open"
    /\ (pc = "failed" /\ netCalls) => connection = "closed"

\* An error left the display pass's with block, which had reopened the
\* connection.
C9_Witness ==
    /\ pc = "failed"
    /\ commits = 1
    /\ display_name # NoneStr
    /\ connects = 2
    /\ connection = "closed"

\* C10: termination. Every run that enters the sweep ends: it reaches its
\* commit, or an error ends it.
C10_Terminates == (pc = "sweep_start") ~> (commits = 1 \/ pc = "failed")

\* ------------------------------------------------- the gateway on its own
\* helper's two calls, insert_thread_data and insert_comment_data, made
\* with arbitrary records on an open connection.

\* Thread 1 as parse_thread can build it, each field in one of two states.
\* m picks the score, title, permalink and body; w the subreddit, author,
\* creation time and link.
ThreadInput(m, w) ==
    [id |-> 1,
     subreddit_id |-> IF w = 1 THEN 7 ELSE 8,
     title |-> IF m = 1 THEN "ask" ELSE "ask (edited)",
     text |-> IF m = 1 THEN "" ELSE "body",
     external_url |-> IF w = 1 THEN NoneStr ELSE "http://ext",
     url |-> IF m = 1 THEN "https://reddit.com/a" ELSE "https://reddit.com/b",
     username |-> IF w = 1 THEN "ann" ELSE NoneStr,
     upvotes |-> 10 * m,
     date_posted |-> w,
     comments |-> << >>]

ThreadInputs == { ThreadInput(m, w) : m \in 1..2, w \in 1..2 }

\* Comments 11 and 12 likewise: m picks the score and the body; w the
\* thread, the parent (none, or the other comment), the author and the time.
CommentInput(id, m, w) ==
    [id |-> id,
     thread_id |-> w,
     parent_comment_id |-> IF w = 1 THEN NULL ELSE 23 - id,
     username |-> IF w = 1 THEN "bob" ELSE NoneStr,
     upvotes |-> m,
     date_posted |-> w,
     text |-> IF m = 1 THEN "first" ELSE "edited"]

CommentInputs == { CommentInput(id, m, w) : id \in 11..12, m \in 1..2, w \in 1..2 }

\* The lists handed to insert_comment_data: none, one comment, or comment
\* 11 followed by comment 12.
CommentLists ==
    {<< >>} \cup { <<c>> : c \in CommentInputs }
            \cup { << CommentInput(11, m, w), CommentInput(12, m, w) >> :
                      m \in 1..2, w \in 1..2 }

\* A store that holds two subreddits and thread 2.
InitGateway ==
    /\ argv = [date_kind |-> "ok", date |-> 1, subreddit |-> TRUE, subreddit_url |-> FALSE]
    /\ listing = << >>
    /\ run = 1
    /\ committed =
         [subreddits |-> << [id |-> 7, name |-> "python"], [id |-> 8, name |-> "tlaplus"] >>,
          threads |-> << ThreadRow([ThreadInput(1, 1) EXCEPT !.id = 2]) >>,
          comments |-> << >>]
    /\ pending = committed
    /\ runStart = committed
    /\ firstCommit = [done |-> FALSE, run |-> 0, db |-> EmptyDb]
    /\ pc = "gateway"
    /\ connection = "open"
    /\ ProcessStart

\* helper, lines 69-70, for a thread and its comments: insert_thread_data,
\* then insert_comment_data, whose loop ends early if an execute fails on
\* a foreign key.
GwHelper ==
    /\ pc = "gateway"
    /\ \E t \in ThreadInputs, cs \in CommentLists :
         /\ HasKey(pending.threads, t.id) \/ ThreadFkOk(pending, t)
         /\ parsed_thread' = [t EXCEPT !.comments = cs]
         /\ pending' = insert_comment_data(insert_thread_data(pending, t), cs).db
    /\ UNCHANGED <<inVars, pc, mainVars, connection, connects, committed, last_thread,
                   batch, thread, histVars, displayVars>>

NextGateway == GwHelper

SpecGateway == InitGateway /\ [][NextGateway]_vars

ThreadPolicy(old, new, t) ==
    IF old.id = t.id
    THEN /\ new.id = old.id
         /\ new.subreddit_id = old.subreddit_id
         /\ new.username = old.username
         /\ new.date_posted = old.date_posted
         /\ new.external_url = old.external_url
         /\ new.upvotes = t.upvotes
         /\ new.title = t.title
         /\ new.url = t.url
         /\ new.text = t.text
    ELSE new = old

CommentPolicy(old, new, cs) ==
    IF \E k \in DOMAIN cs : cs[k].id = old.id
    THEN LET c == cs[CHOOSE k \in DOMAIN cs : cs[k].id = old.id]
         IN  /\ new.id = old.id
             /\ new.thread_id = old.thread_id
             /\ new.parent_comment_id = old.parent_comment_id
             /\ new.username = old.username
             /\ new.date_posted = old.date_posted
             /\ new.upvotes = c.upvotes
             /\ new.text = c.text
    ELSE new = old

\* C6: upsert field policy. When helper upserts a thread whose id is
\* already stored, the stored row keeps its id, subreddit_id, username,
\* date_posted and external_url and takes the upvotes, title, url and text
\* of the thread handed in; a stored comment whose id is in the list
\* handed in keeps its id, thread_id, parent_comment_id, username and
\* date_posted and takes the upvotes and text handed in. Every other
\* stored row is left as it is.
C6_UpsertFieldPolicy ==
    [][(pc = "gateway" /\ parsed_thread' # parsed_thread)
         => /\ \A i \in DOMAIN pending.threads :
                 ThreadPolicy(pending.threads[i], pending'.threads[i], parsed_thread')
            /\ \A i \in DOMAIN pending.comments :
                 CommentPolicy(pending.comments[i], pending'.comments[i],
                               parsed_thread'.comments)]_vars

\* A stored thread and a stored comment were upserted with records that
\* differ from them in every field but the id: each took the mutable
\* fields handed in and kept the others.
C6_Witness ==
    /\ pc = "gateway"
    /\ parsed_thread.id # NULL
    /\ LET row == RowOf(pending.threads, parsed_thread.id)
       IN  /\ row.upvotes = parsed_thread.upvotes
           /\ row.text = parsed_thread.text
           /\ row.username # parsed_thread.username
           /\ row.date_posted # parsed_thread.date_posted
           /\ row.subreddit_id # parsed_thread.subreddit_id
    /\ \E k \in DOMAIN parsed_thread.comments :
         /\ HasKey(pending.comments, parsed_thread.comments[k].id)
         /\ LET c == parsed_thread.comments[k]
                row == RowOf(pending.comments, c.id)
            IN  /\ row.text = c.text
                /\ row.upvotes = c.upvotes
                /\ row.parent_comment_id # c.parent_comment_id
                /\ row.thread_id # c.thread_id

\* ------------------------------------------- the display pass on its own
\* display_subreddit_threads called on a store that earlier runs have
\* filled: the subreddit, threads 1 and 2, comment 9 of thread 2 and up to
\* MaxComments comments of thread 1, each with any other stored comment (or
\* none) as its parent and either date.
StoredThread(id, date) ==
    [id |-> id, subreddit_id |-> RemoteSubreddit.id, title |-> "ask", text |-> "",
     external_url |-> NoneStr, url |-> "https://reddit.com/a", username |-> "ann",
     upvotes |-> 1, date_posted |-> date]

StoredComment(id, tid, parent, date) ==
    [id |-> id, thread_id |-> tid, parent_comment_id |-> parent, username |-> "bob",
     upvotes |-> 1, date_posted |-> date, text |-> "text"]

OtherThreadComment == MaxComments + 1

StoredCommentTables ==
    UNION { { [i \in 1..n |-> StoredComment(i, 1, par[i], date[i])] :
                par \in { p \in [1..n -> {NULL, OtherThreadComment} \cup 1..n] :
                            \A i \in 1..n : p[i] # i },
                date \in [1..n -> 1..2] } : n \in 0..MaxComments }

InitDisplay ==
    /\ argv = [date_kind |-> "ok", date |-> 2, subreddit |-> TRUE, subreddit_url |-> FALSE]
    /\ listing = << >>
    /\ run = 1
    /\ \E dates \in { <<2, 2>>, <<2, 1>>, <<1, 1>> }, cs \in StoredCommentTables :
         committed = [subreddits |-> << RemoteSubreddit >>,
                      threads |-> << StoredThread(1, dates[1]), StoredThread(2, dates[2]) >>,
                      comments |-> << StoredComment(OtherThreadComment, 2, NULL, 1) >> \o cs]
    /\ pending = committed
    /\ runStart = committed
    /\ firstCommit = [done |-> FALSE, run |-> 0, db |-> EmptyDb]
    /\ pc = "display_enter"
    /\ connection = "closed"
    /\ subreddit_name \in {"python", "doesnotexist"}
    /\ start_date = argv.date
    /\ connects = 0
    /\ last_thread = NULL
    /\ batch = << >>
    /\ thread = NoThread
    /\ parsed_thread = NoThread
    /\ fetches = 0
    /\ netCalls = FALSE
    /\ dbCalls = FALSE
    /\ cutoffHit = FALSE
    /\ upserted = << >>
    /\ commits = 0
    /\ NoDisplay

NextDisplay ==
    \/ DisplayEnter
    \/ DisplayEnterFails
    \/ GetSubredditId
    \/ GetThreads
    \/ DisplayThread
    \/ PlaceComment
    \/ PlaceCommentRaises
    \/ PrintTree
    \/ DisplayLoopEnds
    \/ DisplayExit
    \/ DisplayRaises

SpecDisplay == InitDisplay /\ [][NextDisplay]_vars

NoSuchSubreddit == get_subreddit_id(committed, subreddit_name) = NULL

\* C7: not-found path. When the store holds no subreddit of the name
\* asked for, display_subreddit_threads reads no thread and no comment and
\* prints nothing; the lookup done, it logs the not-found notice and goes
\* straight to the end of its with block, and it returns without an error.
C7_NotFound ==
    NoSuchSubreddit
        => /\ threadReads = 0
           /\ commentReads = 0
           /\ printed = << >>
           /\ pc \notin {"get_threads", "display_thread", "display_comments"}
           /\ pc \in {"display_exit", "done"} => notice = "not found"
           /\ dbCalls => pc \in {"display_exit", "done"}

C7_Witness ==
    /\ NoSuchSubreddit
    /\ pc = "done"
    /\ notice = "not found"
    /\ Len(committed.threads) >= 2
    /\ Len(committed.comments) >= 2
    /\ threadReads = 0 /\ commentReads = 0

Placed == DOMAIN comment_dict \ {NULL}

Occurrences(node) ==
    Cardinality(UNION { { <<p, k>> : k \in { j \in DOMAIN comment_tree[p] :
                                                 comment_tree[p][j] = node } } :
                        p \in DOMAIN comment_tree })

\* C8: tree reconstruction. While display_comments runs, every comment
\* placed so far has a node of its own that is listed exactly once in the
\* tree, under the node of its parent_comment_id, or under the root when
\* it has none; and when the loop is over, with every parent met before
\* its children, each comment of the thread has been placed.
C8_TreeReconstruction ==
    pc = "display_comments"
        => /\ DOMAIN comment_tree = DOMAIN comment_dict
           /\ \A c \in Placed :
                LET row == RowOf(pending.comments, c)
                IN  /\ comment_dict[c] = c
                    /\ c \in Range(comment_tree[row.parent_comment_id])
                    /\ Occurrences(c) = 1
           /\ Range(comment_tree[NULL]) =
                { c \in Placed : RowOf(pending.comments, c).parent_comment_id = NULL }
           /\ comments = << >> =>
                Placed = { r.id : r \in { x \in Range(pending.comments) :
                                            x.thread_id = Head(threads).id } }

\* A thread's three comments were placed as a chain, or as one comment
\* with two replies.
C8_Witness ==
    /\ pc = "display_comments"
    /\ comments = << >>
    /\ Cardinality(Placed) = 3
    /\ Len(comment_tree[NULL]) = 1
    /\ \E a, b \in Placed : a # b /\ Len(comment_tree[a]) = 2 /\ Len(comment_tree[b]) = 0

\* -------------------------------------------------- parents and orphans
\* The stored comments of the thread being displayed.
ThreadComments ==
    { c \in Range(pending.comments) : c.thread_id = Head(threads).id }

\* Well-formed source data: each parent is a comment of the same thread
\* and is not newer than its reply.
WellFormed ==
    \A c \in ThreadComments :
        HasParent(c) =>
            \E p \in ThreadComments :
                p.id = c.parent_comment_id /\ p.date_posted <= c.date_posted

\* The comment in hand and those that follow it come in non-decreasing
\* date_posted order, after everything placed before them.
NonDecreasing ==
    /\ \A i, j \in DOMAIN comments :
         i < j => comments[i].date_posted <= comments[j].date_posted
    /\ \A c \in Placed, i \in DOMAIN comments :
         RowOf(pending.comments, c).date_posted <= comments[i].date_posted

\* The comment display_comments is about to place names a parent that has
\* no entry in comment_dict.
OrphanInHand ==
    /\ pc = "display_comments"
    /\ comments # << >>
    /\ Head(comments).parent_comment_id # NULL
    /\ Head(comments).parent_comment_id \notin DOMAIN comment_dict

\* C11: parent already placed. When the comments of a thread are processed
\* in non-decreasing date_posted order, as get_comments delivers them, and
\* no parent is newer than its reply, the parent of the comment about to
\* be placed is already a key of comment_dict, also when the reply carries
\* the same date_posted as its parent.
C11_ParentAlreadyPlaced ==
    (pc = "display_comments" /\ comments # << >> /\ NonDecreasing /\ WellFormed)
        => ParentPlaced(comment_dict, Head(comments))

\* C12: unguarded orphan parent. When the comment about to be placed names
\* a parent that is not in comment_dict, the next step is the error: the
\* comment gets no node, under the root or anywhere else, the tree of its
\* thread is not printed, and from then on nothing more is read or printed,
\* so no later thread is rendered.
C12_OrphanFailsRender ==
    [][ /\ OrphanInHand
          => /\ pc' = "failed"
             /\ comment_tree' = comment_tree
             /\ comment_dict' = comment_dict
             /\ printed' = printed
             /\ threads' = threads
             /\ comments' = comments
        /\ pc = "failed"
          => /\ pc' = "failed"
             /\ printed' = printed
             /\ threadReads' = threadReads
             /\ commentReads' = commentReads ]_vars

\* The render failed on an orphan while its thread's tree was unprinted
\* and a later thread was still waiting; in one case a tree had been
\* printed before.
C12_Witness ==
    /\ pc = "failed"
    /\ comments # << >>
    /\ Head(comments).parent_comment_id # NULL
    /\ Head(comments).parent_comment_id \notin DOMAIN comment_dict
    /\ Head(comments).id \notin DOMAIN comment_tree
    /\ Len(threads) = 2
    /\ Head(threads).id \notin Range(printed)
    /\ Placed # {}

\* ------------------------------------------------- one manager, two scopes
\* The positions at which the next step is a gateway operation: the
\* upserts, the commit and the reads of the display pass.
GatewayPcs ==
    {"sweep_start", "helper_insert_thread", "helper_insert_comments", "commit",
     "get_subreddit_id", "get_threads"}

DisplayPcs ==
    {"get_subreddit_id", "get_threads", "display_thread", "display_comments",
     "display_exit"}

\* C13: one manager over the whole run. Every gateway operation (the
\* upserts, the commit, get_subreddit_id, get_threads, each get_comments)
\* starts on an open connection; the connection the constructor opened
\* serves the ingest pass, is closed at its end and is opened a second
\* time on entry to the display pass; and the display pass reads only
\* after the ingestion's commit, from a session that sees what was
\* committed.
C13_OneManagerTwoScopes ==
    /\ pc \in GatewayPcs => connection = "open"
    /\ (pc = "display_thread" /\ threads # << >>) => connection = "open"
    /\ pc \in SweepPcs => connects = 1
    /\ pc = "display_enter" => connection = "closed" /\ connects = 1
    /\ pc \in DisplayPcs => connects = 2 /\ commits = 1 /\ pending = committed
    /\ (threadReads > 0 \/ commentReads > 0) => commits = 1

\* A whole run: threads were upserted and committed, the display pass
\* reopened the connection, read the comments and printed a tree.
C13_Witness ==
    /\ pc = "done"
    /\ commits = 1
    /\ connects = 2
    /\ upserted # << >>
    /\ threadReads = 1
    /\ commentReads >= 1
    /\ printed # << >>

====
